---- MODULE Spec2Model ----
(***************************************************************************)
(* TerraStream: the procedural terrain core of game/terrain.py and         *)
(* game/noise.py.  The chunk store (TerrainManager.chunks), on-demand      *)
(* generation with boundary blending, the budgeted streaming pass          *)
(* ensure_chunks and the height query sample_height; the ridge smoothing   *)
(* of draw, the player's physics and the frame loop of game/loop.py.       *)
(*                                                                         *)
(* Numbers.  World x coordinates are whole pixels.  Every other float of   *)
(* the program (noise values, heights, slopes, blend weights) is held in   *)
(* fixed point: the integer v stands for v / FP, and a product or a        *)
(* quotient is rounded down to the next multiple of 1 / FP, where the      *)
(* program rounds to the next double.                                      *)
(***************************************************************************)
EXTENDS Integers, Sequences, FiniteSets, TLC

\* ---------------------------------------------------------------- config.py
WINDOW_WIDTH == 960
WINDOW_HEIGHT == 540
CHUNK_WIDTH == 256
POINT_SPACING == 16
NOISE_OCTAVES == 4
\* NOISE_SCALE = 0.005 = 1 / NOISE_SCALE_DEN
NOISE_SCALE_DEN == 200
NOISE_AMPLITUDE == 140
SEED == 1337
PREFETCH_CHUNKS_AHEAD == 12
PREFETCH_CHUNKS_BEHIND == 2
MAX_CHUNKS_PER_FRAME == 3
INITIAL_LEFT_CHUNKS == 3
TERRAIN_SMOOTH_SUBDIVS == 4
TERRAIN_SMOOTH_MIN_POINTS == 8
TERRAIN_SMOOTH_VERTICAL_CLAMP == 220
\* SPIKE_RELAX_FACTOR = 0.55 = SPIKE_RELAX_PCT / 100
SPIKE_RELAX_PCT == 55
\* getattr(config, 'SPIKE_FILTER_THRESHOLD', 18.0) and
\* getattr(config, 'SPIKE_FILTER_PASSES', 1): config.py sets neither.
SPIKE_FILTER_THRESHOLD == 18
SPIKE_FILTER_PASSES == 1
FPS == 60
PLAYER_MOVE_SPEED == 240
PLAYER_JUMP_VELOCITY == -520
GRAVITY == 1500
\* CAMERA_LERP = 0.15 and CAMERA_ANCHOR_X = 0.75, in hundredths
CAMERA_LERP_PCT == 15
CAMERA_ANCHOR_PCT == 75

\* ------------------------------------------------------------- fixed point
\* One unit of a float is FP units of the model.
FP == 10 * 10 * 10

Mul(a, b) == (a * b) \div FP

Div(a, b) == (a * FP) \div b

Max(a, b) == IF a >= b THEN a ELSE b

Min(a, b) == IF a <= b THEN a ELSE b

Abs(a) == IF a >= 0 THEN a ELSE -a

\* BASELINE = WINDOW_HEIGHT * 0.55, in fixed point
BASELINE == (WINDOW_HEIGHT * 55 * FP) \div 100

\* ---------------------------------------------------------------- noise.py
\* The seed of the second generator the tests build beside config.SEED.
TEST_SEED == 777

\* p after random.Random(SEED).shuffle(list(range(256)))
Perm1337 ==
    << 181, 1, 179, 217, 161, 25, 228, 36, 81, 234, 229, 120, 231, 131, 68, 197,
       71, 232, 244, 29, 123, 157, 137, 23, 96, 66, 128, 159, 186, 238, 75, 150,
       62, 57, 9, 245, 94, 21, 34, 22, 136, 151, 88, 19, 143, 222, 7, 77,
       95, 189, 83, 37, 107, 2, 215, 174, 160, 239, 208, 31, 113, 59, 99, 252,
       164, 0, 225, 132, 139, 212, 35, 192, 130, 125, 74, 56, 121, 105, 122, 200,
       40, 87, 227, 55, 119, 241, 127, 69, 236, 5, 41, 141, 153, 247, 60, 191,
       106, 53, 101, 97, 114, 218, 111, 251, 155, 28, 170, 32, 70, 190, 166, 180,
       61, 148, 24, 243, 91, 144, 76, 82, 86, 84, 45, 182, 8, 48, 44, 118,
       14, 39, 73, 206, 10, 224, 109, 38, 220, 64, 112, 49, 20, 177, 209, 15,
       33, 250, 201, 65, 226, 237, 214, 138, 124, 133, 6, 116, 253, 126, 12, 47,
       185, 196, 135, 46, 175, 54, 242, 165, 142, 193, 199, 58, 254, 110, 248, 156,
       3, 207, 145, 115, 183, 72, 26, 184, 50, 230, 216, 172, 13, 195, 167, 104,
       18, 11, 147, 158, 134, 163, 17, 140, 51, 67, 219, 249, 154, 176, 173, 80,
       203, 43, 63, 117, 30, 152, 90, 213, 4, 169, 79, 204, 188, 205, 223, 103,
       89, 171, 240, 129, 16, 102, 246, 210, 108, 27, 93, 233, 221, 168, 194, 52,
       178, 100, 78, 235, 92, 202, 162, 98, 85, 211, 198, 42, 255, 149, 146, 187 >>

\* p after random.Random(TEST_SEED).shuffle(list(range(256)))
Perm777 ==
    << 199, 4, 116, 152, 131, 33, 58, 186, 123, 23, 204, 126, 83, 51, 121, 213,
       6, 216, 76, 195, 228, 14, 179, 221, 28, 64, 92, 88, 173, 238, 93, 225,
       90, 109, 151, 217, 61, 57, 157, 160, 47, 17, 240, 97, 249, 136, 80, 215,
       180, 52, 15, 242, 210, 110, 119, 50, 124, 105, 118, 197, 154, 252, 107, 39,
       62, 181, 187, 74, 175, 133, 66, 237, 200, 42, 165, 211, 60, 235, 7, 183,
       46, 63, 163, 166, 18, 196, 162, 223, 5, 241, 148, 250, 185, 243, 84, 145,
       202, 104, 142, 82, 232, 172, 25, 167, 77, 229, 49, 12, 158, 9, 155, 59,
       11, 21, 72, 56, 75, 132, 190, 20, 54, 194, 34, 36, 255, 245, 41, 35,
       40, 178, 146, 135, 71, 3, 101, 125, 201, 38, 111, 130, 220, 95, 174, 13,
       129, 138, 91, 191, 87, 113, 102, 108, 103, 203, 184, 182, 193, 234, 226, 188,
       218, 67, 209, 120, 1, 206, 230, 141, 31, 44, 246, 48, 78, 81, 143, 100,
       247, 16, 122, 45, 96, 22, 98, 144, 168, 55, 65, 112, 2, 43, 115, 239,
       24, 127, 176, 70, 169, 198, 139, 231, 134, 222, 37, 156, 89, 8, 205, 150,
       106, 207, 208, 32, 128, 79, 53, 170, 161, 27, 68, 149, 244, 248, 251, 164,
       214, 0, 189, 219, 26, 85, 227, 19, 177, 29, 30, 224, 73, 153, 99, 140,
       159, 171, 233, 253, 236, 10, 192, 137, 86, 212, 69, 147, 94, 254, 114, 117 >>

\* Noise1D.__init__: self.perm = p + p, the table of the generator built
\* from seed s (1-based here, perm[i] is Perm(s)[i + 1]).
PermTables == [s \in {SEED, TEST_SEED} |->
                  IF s = SEED THEN Perm1337 \o Perm1337 ELSE Perm777 \o Perm777]

Perm(s) == PermTables[s]

\* _grad: +1 for an even hash, -1 for an odd one.
grad(hash_val) == IF hash_val % 2 = 0 THEN 1 ELSE -1

\* int(x) of a float x = xf / FP: truncation toward zero.
IntTrunc(xf) == IF xf >= 0 THEN xf \div FP ELSE -((-xf) \div FP)

\* _FADE = t * t * t * (t * (t * 6 - 15) + 10)
FADE(t) == Mul(Mul(Mul(t, t), t), Mul(t, t * 6 - 15 * FP) + 10 * FP)

\* _LERP = a + (b - a) * t
LERP(a, b, t) == a + Mul(b - a, t)

\* Noise1D.noise(x) on a generator whose self.perm is perm, x = xf / FP.
noise(perm, xf) ==
    LET xi    == IntTrunc(xf)
        x0    == xi % 256
        x_rel == xf - xi * FP
        x1    == (x0 + 1) % 256
        g0    == grad(perm[x0 + 1])
        g1    == grad(perm[x1 + 1])
        d0    == g0 * x_rel
        d1    == g1 * (x_rel - FP)
        t     == FADE(x_rel)
    IN  LERP(d0, d1, t)

\* The loop of Noise1D.fractal after k of its octaves: the running
\* <<total, amplitude, max_amp, freq>>, lacunarity 2.0 and persistence 0.5.
RECURSIVE fractal_loop(_, _, _, _)
fractal_loop(perm, xf, k, acc) ==
    IF k <= 0 THEN acc
    ELSE fractal_loop(perm, xf, k - 1,
             [total     |-> acc.total + Mul(noise(perm, xf * acc.freq), acc.amplitude),
              max_amp   |-> acc.max_amp + acc.amplitude,
              amplitude |-> acc.amplitude \div 2,
              freq      |-> acc.freq * 2])

\* fractal returning total / max_amp whatever max_amp is: with max_amp = 0
\* the division raises ZeroDivisionError.
fractal_unguarded(perm, xf, octaves) ==
    LET acc == fractal_loop(perm, xf, octaves,
                   [total |-> 0, amplitude |-> FP, max_amp |-> 0, freq |-> 1])
    IN  IF acc.max_amp # 0
        THEN [raised |-> FALSE, value |-> Div(acc.total, acc.max_amp)]
        ELSE [raised |-> TRUE, value |-> 0]

\* Noise1D.fractal(x, octaves): total / max_amp if max_amp else 0.0.  raised
\* tells whether the call ended in an exception.
fractal(perm, xf, octaves) ==
    LET acc == fractal_loop(perm, xf, octaves,
                   [total |-> 0, amplitude |-> FP, max_amp |-> 0, freq |-> 1])
    IN  IF acc.max_amp # 0
        THEN [raised |-> FALSE, value |-> Div(acc.total, acc.max_amp)]
        ELSE [raised |-> FALSE, value |-> 0]

\* Noise1D(seed): the generator object, whose only attribute is perm.
Noise1D(s) == [perm |-> Perm(s)]

\* A noise call that leaves the table rotated by one place behind it.
noise_call_advances(self, xf) ==
    [self  |-> [perm |-> [k \in 1..Len(self.perm) |-> self.perm[(k % Len(self.perm)) + 1]]],
     value |-> noise(self.perm, xf)]

\* self.noise(x) as a method call: the generator it leaves and the value it
\* returns.
noise_call(self, xf) ==
    [self |-> self, value |-> noise(self.perm, xf)]

\* self.fractal(x, octaves) as a method call.
fractal_call(self, xf, octaves) ==
    LET r == fractal(self.perm, xf, octaves)
    IN  [self |-> self, raised |-> r.raised, value |-> r.value]

\* ------------------------------------------------------------------ bounds
\* Cameras stand at k * CamStep for k in -CamLeft..CamRight.
CamLeft == 1
CamRight == 2
CamStep == (3 * CHUNK_WIDTH) \div 4
CameraXs == {k * CamStep : k \in (-CamLeft)..CamRight}

\* generate_chunk is called directly on -INITIAL_LEFT_CHUNKS..GenRight
\* (Game.__init__ calls it on -1, -2, ..., the tests on 0 and 1).
GenRight == 0
GenIdxs == (-INITIAL_LEFT_CHUNKS)..GenRight

\* Height queries are made at k * SampleStep for k in -SampleLeft..SampleRight.
SampleLeft == 1
SampleRight == 1
SampleStep == (CHUNK_WIDTH + POINT_SPACING) \div 2
SampleXs == {k * SampleStep : k \in (-SampleLeft)..SampleRight}

Seeds == {SEED}

\* Standalone generators are built from NoiseSeeds and called at the inputs
\* k * NoiseStep (quarters of a lattice cell) for k in -NoiseLeft..NoiseRight,
\* fractal with -NegOctaves..MaxOctaves octaves.
NoiseSeeds == {SEED, TEST_SEED}
NoiseLeft == 3
NoiseRight == 2
NoiseStep == FP \div 4
NoiseXs == {k * NoiseStep : k \in (-NoiseLeft)..NoiseRight}
NegOctaves == 1
MaxOctaves == 1
Octaves == (-NegOctaves)..MaxOctaves
Generators == {1, 2}

\* The ridge is drawn on a surface SmoothWidth wide with the camera at
\* k * POINT_SPACING for k in -SmoothLeft..SmoothRight, over the chunks
\* -INITIAL_LEFT_CHUNKS..SmoothHi.
SmoothWidth == 10 * POINT_SPACING
SmoothLeft == 44
SmoothRight == 34
SmoothCams == {k * POINT_SPACING : k \in (-SmoothLeft)..SmoothRight}
SmoothHi == 2

\* The spike filter is run with passes = 0..MaxPasses (config.py may set
\* SPIKE_FILTER_PASSES; without it passes = 1).
MaxPasses == 5

\* A player is released k * DropStep pixels above the terrain, k in 0..MaxDrop,
\* and keys can be down during the first KeyFrames frames.
DropStep == 200
MaxDrop == 1
Drops == {k * DropStep : k \in 0..MaxDrop}
KeyFrames == 2
Moves == {-1, 0, 1}

\* A camera held in one chunk stands at its left edge, its middle or its
\* last pixel; the chunks it is held in are those of CameraXs.
StreamOffsets == {0, CHUNK_WIDTH \div 2, CHUNK_WIDTH - 1}
StreamCams == {(c \div CHUNK_WIDTH) * CHUNK_WIDTH + off : c \in CameraXs, off \in StreamOffsets}

\* --------------------------------------------------------------- terrain.py
\* self.overlap = config.POINT_SPACING * 2
overlap == POINT_SPACING * 2

\* math.floor(x / config.CHUNK_WIDTH), x a whole pixel
ChunkOf(x) == x \div CHUNK_WIDTH

\* world_x_range_for_chunk: <<start_x, end_x>>
world_x_range_for_chunk(chunk_idx) ==
    <<chunk_idx * CHUNK_WIDTH, chunk_idx * CHUNK_WIDTH + CHUNK_WIDTH>>

\* len(range(start, stop, step)) for step > 0
RangeLen(start, stop, step) ==
    IF stop <= start THEN 0 ELSE (stop - start + step - 1) \div step

\* _sample_height: BASELINE - fractal(x * NOISE_SCALE, NOISE_OCTAVES) * NOISE_AMPLITUDE
raw_height(s, x) ==
    BASELINE - fractal(Perm(s), (x * FP) \div NOISE_SCALE_DEN, NOISE_OCTAVES).value * NOISE_AMPLITUDE

\* sample_points without the extra sample at end_x:
\* range(start_x, end_x, POINT_SPACING).
sample_points_no_peek(s, chunk_idx) ==
    LET start_x == world_x_range_for_chunk(chunk_idx)[1]
        end_x   == world_x_range_for_chunk(chunk_idx)[2]
        n       == RangeLen(start_x, end_x, POINT_SPACING)
    IN  [k \in 1..n |->
            LET sx == start_x + (k - 1) * POINT_SPACING
            IN  <<sx, raw_height(s, sx)>>]

\* The samples of generate_chunk: one point per sx in
\* range(start_x, end_x + POINT_SPACING, POINT_SPACING).
sample_points(s, chunk_idx) ==
    LET start_x == world_x_range_for_chunk(chunk_idx)[1]
        end_x   == world_x_range_for_chunk(chunk_idx)[2]
        n       == RangeLen(start_x, end_x + POINT_SPACING, POINT_SPACING)
    IN  [k \in 1..n |->
            LET sx == start_x + (k - 1) * POINT_SPACING
            IN  <<sx, raw_height(s, sx)>>]

\* Every chunk index a call of the model can touch.
ChunkIdxs ==
    LET xs == CameraXs \cup SampleXs \cup {i * CHUNK_WIDTH : i \in GenIdxs}
        lo == CHOOSE x \in xs : \A y \in xs : x <= y
        hi == CHOOSE x \in xs : \A y \in xs : x >= y
        \* the player stays within KeyFrames steps of x = 0, the camera
        \* between the anchor left of him and 0
        far == (KeyFrames * PLAYER_MOVE_SPEED) \div FPS
                   + (WINDOW_WIDTH * CAMERA_ANCHOR_PCT) \div 100
    IN  (Min(Min(ChunkOf(lo), ChunkOf(-far)) - PREFETCH_CHUNKS_BEHIND, -INITIAL_LEFT_CHUNKS))
            ..(Max(Max(ChunkOf(hi), ChunkOf(far)) + PREFETCH_CHUNKS_AHEAD, SmoothHi))

\* sample_points is a pure function of (seed, chunk_idx): its values, computed once.
SampledTable == [s \in Seeds |-> [i \in ChunkIdxs |-> sample_points(s, i)]]

Sampled(s, chunk_idx) == SampledTable[s][chunk_idx]

\* self.chunks = {}
EmptyStore == [j \in {} |-> <<>>]

\* The store with key idx set to pts.
Put(store, idx, pts) ==
    [j \in DOMAIN store \cup {idx} |-> IF j = idx THEN pts ELSE store[j]]

\* _blend_boundary returning only the points it blended: the list is cut at
\* the first point past the blend zone.
blend_boundary_keeps_zone_only(left_points, right_points) ==
    LET n           == Len(left_points)
        last        == left_points[n]
        blend_end   == last[1]
        boundary_slope ==
            IF n >= 2
            THEN LET p1 == left_points[n - 1]
                     p2 == left_points[n]
                 IN  IF p2[1] # p1[1] THEN (p2[2] - p1[2]) \div (p2[1] - p1[1]) ELSE 0
            ELSE 0
        zone   == {k \in 1..Len(right_points) : right_points[k][1] <= blend_end + overlap}
        blended(p) ==
            LET x         == p[1]
                t         == Max(0, Min(FP, Div(x - blend_end, overlap + POINT_SPACING)))
                predicted == last[2] + boundary_slope * (x - last[1])
                original  == p[2]
            IN  <<x, Mul(predicted, FP - t) + Mul(original, t)>>
    IN  [k \in 1..Cardinality(zone) |-> blended(right_points[k])]

\* _blend_boundary predicting from the height of the left chunk's last point
\* but one: predicted = left_points[-2][1] + boundary_slope * (x - left_points[-1][0]).
blend_boundary_from_second_last(left_points, right_points) ==
    LET n           == Len(left_points)
        last        == left_points[n]
        anchor      == left_points[Max(n - 1, 1)]
        blend_end   == last[1]
        boundary_slope ==
            IF n >= 2
            THEN LET p1 == left_points[n - 1]
                     p2 == left_points[n]
                 IN  IF p2[1] # p1[1] THEN (p2[2] - p1[2]) \div (p2[1] - p1[1]) ELSE 0
            ELSE 0
        past   == {k \in 1..Len(right_points) : right_points[k][1] > blend_end + overlap}
        stop   == IF past = {} THEN Len(right_points) + 1
                  ELSE CHOOSE k \in past : \A m \in past : k <= m
        blended(p) ==
            LET x         == p[1]
                t         == Max(0, Min(FP, Div(x - blend_end, overlap + POINT_SPACING)))
                predicted == anchor[2] + boundary_slope * (x - last[1])
                original  == p[2]
            IN  <<x, Mul(predicted, FP - t) + Mul(original, t)>>
    IN  [k \in 1..Len(right_points) |->
            IF k < stop THEN blended(right_points[k]) ELSE right_points[k]]

\* _blend_boundary: the right chunk's list after blending against the left one.
blend_boundary(left_points, right_points) ==
    LET n           == Len(left_points)
        last        == left_points[n]
        blend_start == last[1] - overlap
        blend_end   == last[1]
        left_zone   == {k \in 1..n : /\ blend_start <= left_points[k][1]
                                     /\ left_points[k][1] <= blend_end}
        boundary_slope ==
            IF n >= 2
            THEN LET p1 == left_points[n - 1]
                     p2 == left_points[n]
                 IN  IF p2[1] # p1[1] THEN (p2[2] - p1[2]) \div (p2[1] - p1[1]) ELSE 0
            ELSE 0
        \* the loop breaks at the first point past the blend zone
        past   == {k \in 1..Len(right_points) : right_points[k][1] > blend_end + overlap}
        stop   == IF past = {} THEN Len(right_points) + 1
                  ELSE CHOOSE k \in past : \A m \in past : k <= m
        blended(p) ==
            LET x         == p[1]
                t         == Max(0, Min(FP, Div(x - blend_end, overlap + POINT_SPACING)))
                predicted == last[2] + boundary_slope * (x - last[1])
                original  == p[2]
            IN  <<x, Mul(predicted, FP - t) + Mul(original, t)>>
    IN  IF left_zone = {} THEN right_points
        ELSE [k \in 1..Len(right_points) |->
                 IF k < stop THEN blended(right_points[k]) ELSE right_points[k]]

\* generate_chunk without its "already stored" return: it samples and
\* blends the chunk again.
generate_chunk_regenerates(s, allow, store, chunk_idx) ==
    IF (~allow) /\ chunk_idx < 0 THEN store
    ELSE LET points   == Sampled(s, chunk_idx)
             prev_idx == chunk_idx - 1
         IN  IF prev_idx \in DOMAIN store
             THEN Put(store, chunk_idx, blend_boundary(store[prev_idx], points))
             ELSE Put(store, chunk_idx, points)

\* generate_chunk without its ALLOW_NEGATIVE_CHUNKS return.
generate_chunk_any_index(s, allow, store, chunk_idx) ==
    IF chunk_idx \in DOMAIN store THEN store
    ELSE LET points   == Sampled(s, chunk_idx)
             prev_idx == chunk_idx - 1
         IN  IF prev_idx \in DOMAIN store
             THEN Put(store, chunk_idx, blend_boundary(store[prev_idx], points))
             ELSE Put(store, chunk_idx, points)

\* generate_chunk blending in both directions: the left chunk is rewritten
\* against the new one as well.
generate_chunk_blends_left(s, allow, store, chunk_idx) ==
    IF (~allow) /\ chunk_idx < 0 THEN store
    ELSE IF chunk_idx \in DOMAIN store THEN store
    ELSE LET points   == Sampled(s, chunk_idx)
             prev_idx == chunk_idx - 1
         IN  IF prev_idx \in DOMAIN store
             THEN Put(Put(store, chunk_idx, blend_boundary(store[prev_idx], points)),
                      prev_idx, blend_boundary(points, store[prev_idx]))
             ELSE Put(store, chunk_idx, points)

\* generate_chunk blending the stored right neighbour as well, against the
\* chunk it has just generated.
generate_chunk_reblends_right(s, allow, store, chunk_idx) ==
    IF (~allow) /\ chunk_idx < 0 THEN store
    ELSE IF chunk_idx \in DOMAIN store THEN store
    ELSE LET points   == Sampled(s, chunk_idx)
             prev_idx == chunk_idx - 1
             next_idx == chunk_idx + 1
             store1   == IF prev_idx \in DOMAIN store
                         THEN Put(store, chunk_idx, blend_boundary(store[prev_idx], points))
                         ELSE Put(store, chunk_idx, points)
         IN  IF next_idx \in DOMAIN store
             THEN Put(store1, next_idx, blend_boundary(store1[chunk_idx], store[next_idx]))
             ELSE store1

\* generate_chunk under seed s and ALLOW_NEGATIVE_CHUNKS = allow: the store
\* it leaves.
generate_chunk(s, allow, store, chunk_idx) ==
    IF (~allow) /\ chunk_idx < 0 THEN store
    ELSE IF chunk_idx \in DOMAIN store THEN store
    ELSE LET points   == Sampled(s, chunk_idx)
             prev_idx == chunk_idx - 1
         IN  IF prev_idx \in DOMAIN store
             THEN Put(store, chunk_idx, blend_boundary(store[prev_idx], points))
             ELSE Put(store, chunk_idx, points)

\* forward_pass skipping every negative index, whatever ALLOW_NEGATIVE_CHUNKS.
RECURSIVE forward_pass_skips_negative(_, _, _, _, _)
forward_pass_skips_negative(s, allow, st, idx, hi) ==
    IF idx > hi THEN st
    ELSE IF st.budget <= 0 THEN st
    ELSE IF idx < 0 THEN forward_pass_skips_negative(s, allow, st, idx + 1, hi)
    ELSE IF idx \notin DOMAIN st.chunks
         THEN forward_pass_skips_negative(s, allow,
                  [chunks |-> generate_chunk(s, allow, st.chunks, idx),
                   budget |-> st.budget - 1,
                   gen    |-> Append(st.gen, idx)], idx + 1, hi)
         ELSE forward_pass_skips_negative(s, allow, st, idx + 1, hi)

\* forward_pass breaking one chunk early: if budget <= 1: break.
RECURSIVE forward_pass_breaks_early(_, _, _, _, _)
forward_pass_breaks_early(s, allow, st, idx, hi) ==
    IF idx > hi THEN st
    ELSE IF st.budget <= 1 THEN st
    ELSE IF (~allow) /\ idx < 0 THEN forward_pass_breaks_early(s, allow, st, idx + 1, hi)
    ELSE IF idx \notin DOMAIN st.chunks
         THEN forward_pass_breaks_early(s, allow,
                  [chunks |-> generate_chunk(s, allow, st.chunks, idx),
                   budget |-> st.budget - 1,
                   gen    |-> Append(st.gen, idx)], idx + 1, hi)
         ELSE forward_pass_breaks_early(s, allow, st, idx + 1, hi)

\* The forward loop of ensure_chunks from idx up to hi.  st carries the
\* store, the remaining budget and the indices generated so far.
RECURSIVE forward_pass(_, _, _, _, _)
forward_pass(s, allow, st, idx, hi) ==
    IF idx > hi THEN st
    ELSE IF st.budget <= 0 THEN st
    ELSE IF (~allow) /\ idx < 0 THEN forward_pass(s, allow, st, idx + 1, hi)
    ELSE IF idx \notin DOMAIN st.chunks
         THEN forward_pass(s, allow,
                  [chunks |-> generate_chunk(s, allow, st.chunks, idx),
                   budget |-> st.budget - 1,
                   gen    |-> Append(st.gen, idx)], idx + 1, hi)
         ELSE forward_pass(s, allow, st, idx + 1, hi)

\* The backward loop of ensure_chunks from idx down to lo.
RECURSIVE backward_pass(_, _, _, _, _)
backward_pass(s, allow, st, idx, lo) ==
    IF idx < lo THEN st
    ELSE IF st.budget <= 0 THEN st
    ELSE IF idx \notin DOMAIN st.chunks
         THEN IF (~allow) /\ idx < 0
              THEN backward_pass(s, allow, st, idx - 1, lo)
              ELSE backward_pass(s, allow,
                       [chunks |-> generate_chunk(s, allow, st.chunks, idx),
                        budget |-> st.budget - 1,
                        gen    |-> Append(st.gen, idx)], idx - 1, lo)
         ELSE backward_pass(s, allow, st, idx - 1, lo)

\* prune keeping one chunk too many: ci < left_keep - 1.
prune_keeps_one_more(store, left_keep) ==
    [j \in {ci \in DOMAIN store : ~(ci < left_keep - 1)} |-> store[j]]

\* prune cutting the store to the whole window, right side included.
prune_to_window(store, left_keep) ==
    [j \in {ci \in DOMAIN store :
                /\ ~(ci < left_keep)
                /\ ~(ci > left_keep + PREFETCH_CHUNKS_BEHIND + PREFETCH_CHUNKS_AHEAD)}
        |-> store[j]]

\* prune deleting the chunk at left_keep as well: ci <= left_keep.
prune_through_left_keep(store, left_keep) ==
    [j \in {ci \in DOMAIN store : ~(ci <= left_keep)} |-> store[j]]

\* The prune step of ensure_chunks: del self.chunks[ci] for every ci < left_keep.
prune(store, left_keep) ==
    [j \in {ci \in DOMAIN store : ~(ci < left_keep)} |-> store[j]]

\* ensure_chunks running its two loops the other way round: behind first.
ensure_chunks_backward_first(s, allow, store, camera_x, screen_width) ==
    LET current_idx  == ChunkOf(camera_x)
        left_keep    == current_idx - PREFETCH_CHUNKS_BEHIND
        right_target == current_idx + PREFETCH_CHUNKS_AHEAD
        st0 == [chunks |-> store, budget |-> MAX_CHUNKS_PER_FRAME, gen |-> <<>>]
        st1 == backward_pass(s, allow, st0, current_idx - 2, left_keep)
        st2 == IF st1.budget > 0
               THEN forward_pass(s, allow, st1, current_idx - 1, right_target)
               ELSE st1
    IN  [chunks |-> prune(st2.chunks, left_keep), gen |-> st2.gen]

\* ensure_chunks without its backward pass.
ensure_chunks_forward_only(s, allow, store, camera_x, screen_width) ==
    LET current_idx  == ChunkOf(camera_x)
        left_keep    == current_idx - PREFETCH_CHUNKS_BEHIND
        right_target == current_idx + PREFETCH_CHUNKS_AHEAD
        st0 == [chunks |-> store, budget |-> MAX_CHUNKS_PER_FRAME, gen |-> <<>>]
        st1 == forward_pass(s, allow, st0, current_idx - 1, right_target)
    IN  [chunks |-> prune(st1.chunks, left_keep), gen |-> st1.gen]

\* ensure_chunks giving the backward pass a budget of its own.
ensure_chunks_two_budgets(s, allow, store, camera_x, screen_width) ==
    LET current_idx  == ChunkOf(camera_x)
        left_keep    == current_idx - PREFETCH_CHUNKS_BEHIND
        right_target == current_idx + PREFETCH_CHUNKS_AHEAD
        st0 == [chunks |-> store, budget |-> MAX_CHUNKS_PER_FRAME, gen |-> <<>>]
        st1 == forward_pass(s, allow, st0, current_idx - 1, right_target)
        st2 == backward_pass(s, allow, [st1 EXCEPT !.budget = MAX_CHUNKS_PER_FRAME],
                             current_idx - 2, left_keep)
    IN  [chunks |-> prune(st2.chunks, left_keep), gen |-> st2.gen]

\* ensure_chunks(camera_x, screen_width): the store it leaves and, in gen,
\* the indices it generated, in order.
ensure_chunks(s, allow, store, camera_x, screen_width) ==
    LET current_idx  == ChunkOf(camera_x)
        left_keep    == current_idx - PREFETCH_CHUNKS_BEHIND
        right_target == current_idx + PREFETCH_CHUNKS_AHEAD
        st0 == [chunks |-> store, budget |-> MAX_CHUNKS_PER_FRAME, gen |-> <<>>]
        st1 == forward_pass(s, allow, st0, current_idx - 1, right_target)
        st2 == IF st1.budget > 0
               THEN backward_pass(s, allow, st1, current_idx - 2, left_keep)
               ELSE st1
    IN  [chunks |-> prune(st2.chunks, left_keep), gen |-> st2.gen]

\* The walk of sample_height over points[i], points[i + 1]: the first
\* segment with x0 <= x <= x1, or 0 when there is none.
Bracket(points, x) ==
    LET hits == {i \in 1..(Len(points) - 1) :
                    points[i][1] <= x /\ x <= points[i + 1][1]}
    IN  IF hits = {} THEN 0 ELSE CHOOSE i \in hits : \A j \in hits : i <= j

\* sample_height without the interpolation: it returns the y of the stored
\* point left of x.
sample_height_steps(s, allow, store, x) ==
    LET chunk_idx == ChunkOf(x)
        store1    == IF chunk_idx \notin DOMAIN store
                     THEN generate_chunk(s, allow, store, chunk_idx)
                     ELSE store
    IN  IF chunk_idx \notin DOMAIN store1
        THEN [chunks |-> store1, raised |-> TRUE, value |-> 0]
        ELSE LET points == store1[chunk_idx]
                 i      == Bracket(points, x)
             IN  [chunks |-> store1, raised |-> FALSE,
                  value  |-> IF i = 0 THEN points[Len(points)][2]
                             ELSE points[i][2]]

\* sample_height(x): the store it leaves and what it returns; raised is
\* TRUE when self.chunks[chunk_idx] raises KeyError.
sample_height(s, allow, store, x) ==
    LET chunk_idx == ChunkOf(x)
        store1    == IF chunk_idx \notin DOMAIN store
                     THEN generate_chunk(s, allow, store, chunk_idx)
                     ELSE store
    IN  IF chunk_idx \notin DOMAIN store1
        THEN [chunks |-> store1, raised |-> TRUE, value |-> 0]
        ELSE LET points == store1[chunk_idx]
                 i      == Bracket(points, x)
             IN  [chunks |-> store1, raised |-> FALSE,
                  value  |-> IF i = 0 THEN points[Len(points)][2]
                             ELSE LET p0 == points[i]
                                      p1 == points[i + 1]
                                      t  == IF p1[1] # p0[1]
                                            THEN Div(x - p0[1], p1[1] - p0[1])
                                            ELSE 0
                                  IN  p0[2] + Mul(p1[2] - p0[2], t)]

\* ------------------------------------------------- terrain.py: the ridge
\* Points of a ridge are <<x, y>> with x in fixed point as well: the spline
\* puts points between the pixels.

\* draw: the points of every stored chunk with left_bound <= x <= right_bound,
\* negative x skipped when negative chunks are off, sorted by x.  Chunks
\* cover consecutive ranges, so taking them by ascending index sorts by x.
RECURSIVE gather(_, _, _, _)
gather(store, allow, left_bound, right_bound) ==
    IF DOMAIN store = {} THEN <<>>
    ELSE LET i       == CHOOSE j \in DOMAIN store : \A m \in DOMAIN store : j <= m
             rest    == [j \in DOMAIN store \ {i} |-> store[j]]
             seen(p) == /\ ~(p[1] < 0 /\ ~allow)
                        /\ left_bound <= p[1]
                        /\ p[1] <= right_bound
             float(p) == <<p[1] * FP, p[2]>>
             kept    == SelectSeq(store[i], seen)
         IN  [k \in 1..Len(kept) |-> float(kept[k])]
                 \o gather(rest, allow, left_bound, right_bound)

draw_points(store, allow, camera_x, screen_w) ==
    gather(store, allow, camera_x - 50, camera_x + screen_w + 50)

\* max_dy = NOISE_AMPLITUDE * 1.2
max_dy == (NOISE_AMPLITUDE * 12 * FP) \div 10

\* max_slope = max_dy / POINT_SPACING * 0.8
max_slope == ((max_dy \div POINT_SPACING) * 8) \div 10

\* dy > max_dy or slope > max_slope, slope = dy / max(1e-6, x1 - x0): the
\* pair (p, q) of consecutive points is a boundary.  With x1 - x0 <= 0 the
\* slope is dy * 1e6, above max_slope for every dy the model can tell from 0.
Cliff(p, q) ==
    LET dy == Abs(q[2] - p[2])
        dx == q[1] - p[1]
    IN  \/ dy > max_dy
        \/ IF dx > 0 THEN dy * FP > max_slope * dx ELSE dy > 0

\* The segmentation loop of _catmull_rom from pts[i] on: segments closed so
\* far and the segment cur being built.  A segment is kept when it has at
\* least 2 points.
RECURSIVE segment_walk(_, _, _, _)
segment_walk(pts, i, segments, cur) ==
    LET closed == IF Len(cur) >= 2 THEN Append(segments, cur) ELSE segments
    IN  IF i > Len(pts) THEN closed
        ELSE IF Cliff(pts[i - 1], pts[i])
             THEN segment_walk(pts, i + 1, closed, <<pts[i]>>)
             ELSE segment_walk(pts, i + 1, segments, Append(cur, pts[i]))

segmentation(pts) == segment_walk(pts, 2, <<>>, <<pts[1]>>)

\* One coordinate of the Catmull-Rom point at parameter t between p1 and p2.
spline_coord(p0, p1, p2, p3, t) ==
    LET t2 == Mul(t, t)
        t3 == Mul(t2, t)
    IN  (2 * p1 + Mul(p2 - p0, t) + Mul(2 * p0 - 5 * p1 + 4 * p2 - p3, t2)
             + Mul(3 * p1 - p0 - 3 * p2 + p3, t3)) \div 2

\* smooth_segment: subdivs points per interval of seg, then seg[-1]; seg
\* itself when it is shorter than TERRAIN_SMOOTH_MIN_POINTS.
smooth_segment(seg, subdivs) ==
    IF Len(seg) < TERRAIN_SMOOTH_MIN_POINTS THEN seg
    ELSE LET n == Len(seg)
             point(m) ==
                 LET j  == (m - 1) \div subdivs + 1
                     t  == (((m - 1) % subdivs) * FP) \div subdivs
                     p0 == seg[Max(j - 1, 1)]
                     p1 == seg[j]
                     p2 == seg[j + 1]
                     p3 == seg[Min(j + 2, n)]
                 IN  <<spline_coord(p0[1], p1[1], p2[1], p3[1], t),
                       spline_coord(p0[2], p1[2], p2[2], p3[2], t)>>
         IN  [m \in 1..((n - 1) * subdivs) |-> point(m)] \o <<seg[n]>>

\* smoothed.extend(smooth_segment(seg)) for seg in segments[k..]
RECURSIVE smooth_all(_, _, _)
smooth_all(segments, k, subdivs) ==
    IF k > Len(segments) THEN <<>>
    ELSE smooth_segment(segments[k], subdivs) \o smooth_all(segments, k + 1, subdivs)

\* The vertical clamp into [raw_min - CLAMP, raw_max + CLAMP] of pts.
vertical_clamp(pts, smoothed) ==
    LET ys       == {pts[k][2] : k \in 1..Len(pts)}
        raw_min  == CHOOSE y \in ys : \A z \in ys : y <= z
        raw_max  == CHOOSE y \in ys : \A z \in ys : y >= z
        band_min == raw_min - TERRAIN_SMOOTH_VERTICAL_CLAMP * FP
        band_max == raw_max + TERRAIN_SMOOTH_VERTICAL_CLAMP * FP
    IN  [k \in 1..Len(smoothed) |->
            <<smoothed[k][1], Max(band_min, Min(band_max, smoothed[k][2]))>>]

\* A spike pass with the sign of the correction turned: new_y = y + diff * relax.
spike_pass_pushes_away(smoothed) ==
    [i \in 1..Len(smoothed) |->
        IF i < 3 \/ i > Len(smoothed) - 2 THEN smoothed[i]
        ELSE LET y      == smoothed[i][2]
                 y_prev == (smoothed[i - 1][2] + smoothed[i - 2][2]) \div 2
                 y_next == (smoothed[i + 1][2] + smoothed[i + 2][2]) \div 2
                 avg    == (y_prev + y_next) \div 2
                 diff   == y - avg
             IN  IF diff < -(SPIKE_FILTER_THRESHOLD * FP)
                 THEN <<smoothed[i][1], y + (diff * SPIKE_RELAX_PCT) \div 100>>
                 ELSE smoothed[i]]

\* A spike pass relaxing on both sides: abs(diff) > threshold.
spike_pass_two_sided(smoothed) ==
    [i \in 1..Len(smoothed) |->
        IF i < 3 \/ i > Len(smoothed) - 2 THEN smoothed[i]
        ELSE LET y      == smoothed[i][2]
                 y_prev == (smoothed[i - 1][2] + smoothed[i - 2][2]) \div 2
                 y_next == (smoothed[i + 1][2] + smoothed[i + 2][2]) \div 2
                 avg    == (y_prev + y_next) \div 2
                 diff   == y - avg
             IN  IF Abs(diff) > SPIKE_FILTER_THRESHOLD * FP
                 THEN <<smoothed[i][1], y - (diff * SPIKE_RELAX_PCT) \div 100>>
                 ELSE smoothed[i]]

\* One pass of the spike filter: new_pts, every point computed from the list
\* the pass started with.
spike_pass(smoothed) ==
    [i \in 1..Len(smoothed) |->
        IF i < 3 \/ i > Len(smoothed) - 2 THEN smoothed[i]
        ELSE LET y      == smoothed[i][2]
                 y_prev == (smoothed[i - 1][2] + smoothed[i - 2][2]) \div 2
                 y_next == (smoothed[i + 1][2] + smoothed[i + 2][2]) \div 2
                 avg    == (y_prev + y_next) \div 2
                 diff   == y - avg
             IN  IF diff < -(SPIKE_FILTER_THRESHOLD * FP)
                 THEN <<smoothed[i][1], y - (diff * SPIKE_RELAX_PCT) \div 100>>
                 ELSE smoothed[i]]

\* The pass assigned some new_pts[i]: a point stood more than the threshold
\* above its neighbourhood.
spike_changed(smoothed) ==
    \E i \in 3..(Len(smoothed) - 2) :
        LET y_prev == (smoothed[i - 1][2] + smoothed[i - 2][2]) \div 2
            y_next == (smoothed[i + 1][2] + smoothed[i + 2][2]) \div 2
        IN  smoothed[i][2] - (y_prev + y_next) \div 2 < -(SPIKE_FILTER_THRESHOLD * FP)

\* for _ in range(passes): one pass, break when it changed nothing.
RECURSIVE spike_filter(_, _)
spike_filter(smoothed, passes) ==
    IF passes <= 0 THEN smoothed
    ELSE IF spike_changed(smoothed)
         THEN spike_filter(spike_pass(smoothed), passes - 1)
         ELSE spike_pass(smoothed)

\* The spike loop going on after every pass, changed or not.
after_pass_no_break(changed) == "filtering"

\* Where _catmull_rom stands after a pass: `if not changed: break` leads to
\* the return, a changed pass to the head of the loop.
after_pass(changed) == IF changed THEN "filtering" ELSE "smoothed"

\* _catmull_rom up to the spike filter: returned tells that it returned pts
\* early, else pts is the clamped spline the filter starts from.
spline_and_clamp(pts, subdivs) ==
    IF Len(pts) < TERRAIN_SMOOTH_MIN_POINTS \/ subdivs <= 1
    THEN [returned |-> TRUE, pts |-> pts]
    ELSE LET smoothed == smooth_all(segmentation(pts), 1, subdivs)
         IN  IF smoothed = <<>> THEN [returned |-> TRUE, pts |-> pts]
             ELSE [returned |-> FALSE, pts |-> vertical_clamp(pts, smoothed)]

\* _catmull_rom(pts, subdivs) under TERRAIN_SMOOTH_VERTICAL_CLAMP = 220 and
\* SPIKE_FILTER_ENABLED = True.
catmull_rom(pts, subdivs) ==
    IF Len(pts) < TERRAIN_SMOOTH_MIN_POINTS \/ subdivs <= 1 THEN pts
    ELSE LET smoothed == smooth_all(segmentation(pts), 1, subdivs)
         IN  IF smoothed = <<>> THEN pts
             ELSE spike_filter(vertical_clamp(pts, smoothed), SPIKE_FILTER_PASSES)

\* Game.__init__: generate_chunk(-neg) for neg = 1 .. INITIAL_LEFT_CHUNKS.
RECURSIVE initial_left(_, _, _, _)
initial_left(s, allow, store, neg) ==
    IF neg > INITIAL_LEFT_CHUNKS THEN store
    ELSE initial_left(s, allow, generate_chunk(s, allow, store, -neg), neg + 1)

\* generate_chunk(idx), ..., generate_chunk(hi) in ascending order.
RECURSIVE generate_up_to(_, _, _, _, _)
generate_up_to(s, allow, store, idx, hi) ==
    IF idx > hi THEN store
    ELSE generate_up_to(s, allow, generate_chunk(s, allow, store, idx), idx + 1, hi)

\* ---------------------------------------------------- player.py, loop.py
\* A player is [x, y, vx, vy, on_ground]: x in whole pixels, vx in pixels
\* per second, y and vy in fixed point.  A step lasts dt = 1 / FPS, in which
\* vx moves x by a whole number of pixels.

\* Player.__init__
Player == [x |-> 0, y |-> BASELINE, vx |-> 0, vy |-> 0, on_ground |-> FALSE]

\* handle_input with the keys reduced to move (left -1, right +1) and jump.
handle_input(p, move, jump) ==
    LET moved == [p EXCEPT !.vx = move * PLAYER_MOVE_SPEED]
    IN  IF jump /\ p.on_ground
        THEN [moved EXCEPT !.vy = PLAYER_JUMP_VELOCITY * FP, !.on_ground = FALSE]
        ELSE moved

\* Player.physics(dt), first half: gravity and the integration of x and y.
fall(p) ==
    LET vy1 == p.vy + (GRAVITY * FP) \div FPS
    IN  [p EXCEPT !.vy = vy1, !.x = p.x + p.vx \div FPS, !.y = p.y + vy1 \div FPS]

\* The ground collision stopping the fall without putting the player on
\* the ground: self.y keeps the height it fell to.
land_without_snap(p, ground_y) ==
    IF p.y > ground_y
    THEN [p EXCEPT !.vy = 0, !.on_ground = TRUE]
    ELSE [p EXCEPT !.on_ground = FALSE]

\* Player.physics(dt), second half: the ground collision against
\* ground_y = self.terrain.sample_height(self.x).
land(p, ground_y) ==
    IF p.y > ground_y
    THEN [p EXCEPT !.y = ground_y, !.vy = 0, !.on_ground = TRUE]
    ELSE [p EXCEPT !.on_ground = FALSE]

\* Game.update_camera: the camera after one lerp step toward the player.
update_camera(cam, p) ==
    LET anchor_px == (WINDOW_WIDTH * CAMERA_ANCHOR_PCT * FP) \div 100
        desired   == p.x * FP - anchor_px
    IN  cam + ((desired - cam) * CAMERA_LERP_PCT) \div 100

\* Game.__init__: the initial left chunks, when negative chunks are on.
game_start_store(s, allow) ==
    IF allow /\ INITIAL_LEFT_CHUNKS > 0
    THEN initial_left(s, allow, EmptyStore, 1)
    ELSE EmptyStore

\* game_start_store is a pure function of (seed, allow): its values, computed
\* once.
GameStartTable == [s \in Seeds |-> [a \in BOOLEAN |-> game_start_store(s, a)]]

\* ------------------------------------------------------------------- state
VARIABLES
    seed,            \* TerrainManager.seed
    allow_negative,  \* config.ALLOW_NEGATIVE_CHUNKS
    chunks,          \* TerrainManager.chunks: chunk index -> point list
    op,              \* the last call made on the manager
    arg,             \* its argument: camera_x, chunk_idx or x
    before,          \* chunks as that call found them
    generated,       \* the chunk indices that call generated, in order
    result,          \* what it returned: raised is TRUE for a KeyError, value
                     \* is the height sample_height returned (0 for None)
    prior,           \* how many chunks the call before it generated, when that
                     \* was the same call with the same argument; else -1
    gen,             \* standalone Noise1D objects: generator -> [perm]
    gseed,           \* the seed each of them was constructed from
    ncall,           \* the last call made on each of them, and what it returned
    ridge,           \* draw: the sorted draw_points of the frame
    refined,         \* draw: what _catmull_rom returned for them
    stage,           \* draw: "idle", "gathered" or "smoothed"; "filtering"
                     \* inside the spike loop of _catmull_rom
    passes,          \* _catmull_rom: passes, the bound of the spike loop
    passes_run,      \* spike passes run so far in the call under way
    pass_in,         \* the points the last spike pass started from
    player,          \* Game.player
    cam_x,           \* Game.camera_x, in fixed point
    pc,              \* what Game.run does next: "update" or "draw"; "crashed"
                     \* after an exception, "idle" with no game running
    frame_gen,       \* chunks generated so far in the frame under way
    keys_left,       \* frames left in which keys can be down
    keyed,           \* a key has been down in some frame
    air_steps        \* updates that left the player off the ground

terrain_vars == <<seed, allow_negative, chunks, op, arg, before, generated, result, prior>>

noise_vars == <<gen, gseed, ncall>>

spike_vars == <<passes, passes_run, pass_in>>

smooth_vars == <<ridge, refined, stage, spike_vars>>

game_vars == <<player, cam_x, pc, frame_gen, keys_left, keyed, air_steps>>

\* What the calls on a TerrainManager leave alone.
non_terrain_vars == <<noise_vars, smooth_vars, game_vars>>

vars == <<terrain_vars, noise_vars, smooth_vars, game_vars>>

\* What a call (new_op, new_arg) remembers of the call before it.
Prior(new_op, new_arg) ==
    IF op = new_op /\ arg = new_arg THEN Len(generated) ELSE -1

\* A call that returned None.
ReturnedNone == [raised |-> FALSE, value |-> 0]

\* No standalone generator exists.
NoNoise ==
    /\ gen = <<>>
    /\ gseed = <<>>
    /\ ncall = <<>>

\* Nothing has been drawn.
NoRidge ==
    /\ ridge = <<>>
    /\ refined = <<>>
    /\ stage = "idle"
    /\ passes = SPIKE_FILTER_PASSES
    /\ passes_run = 0
    /\ pass_in = <<>>

\* No game is running.
NoGame ==
    /\ player = Player
    /\ cam_x = 0
    /\ pc = "idle"
    /\ frame_gen = 0
    /\ keys_left = 0
    /\ keyed = FALSE
    /\ air_steps = 0

\* TerrainManager.__init__
Init ==
    /\ NoNoise
    /\ NoRidge
    /\ NoGame
    /\ seed \in Seeds
    /\ allow_negative \in BOOLEAN
    /\ chunks = EmptyStore
    /\ op = "init"
    /\ arg = 0
    /\ before = EmptyStore
    /\ generated = <<>>
    /\ result = ReturnedNone
    /\ prior = -1

\* A call generate_chunk(chunk_idx).
GenerateChunk(chunk_idx) ==
    LET after == generate_chunk(seed, allow_negative, chunks, chunk_idx)
    IN  /\ chunks' = after
        /\ op' = "generate_chunk"
        /\ arg' = chunk_idx
        /\ before' = chunks
        /\ generated' = IF chunk_idx \in DOMAIN after /\ chunk_idx \notin DOMAIN chunks
                        THEN <<chunk_idx>> ELSE <<>>
        /\ result' = ReturnedNone
        /\ prior' = Prior("generate_chunk", chunk_idx)
        /\ UNCHANGED <<seed, allow_negative, non_terrain_vars>>

\* A call ensure_chunks(camera_x, screen_width), as draw makes it each frame.
EnsureChunks(camera_x, screen_width) ==
    \E r \in {ensure_chunks(seed, allow_negative, chunks, camera_x, screen_width)} :
        /\ chunks' = r.chunks
        /\ op' = "ensure_chunks"
        /\ arg' = camera_x
        /\ before' = chunks
        /\ generated' = r.gen
        /\ result' = ReturnedNone
        /\ prior' = Prior("ensure_chunks", camera_x)
        /\ UNCHANGED <<seed, allow_negative, non_terrain_vars>>

\* A call sample_height(x), as Player.physics makes it each step.
SampleHeight(x) ==
    LET r == sample_height(seed, allow_negative, chunks, x)
    IN  /\ chunks' = r.chunks
        /\ op' = "sample_height"
        /\ arg' = x
        /\ before' = chunks
        /\ generated' = IF ChunkOf(x) \in DOMAIN r.chunks /\ ChunkOf(x) \notin DOMAIN chunks
                        THEN <<ChunkOf(x)>> ELSE <<>>
        /\ result' = [raised |-> r.raised, value |-> r.value]
        /\ prior' = Prior("sample_height", x)
        /\ UNCHANGED <<seed, allow_negative, non_terrain_vars>>

Next ==
    \/ \E i \in GenIdxs : GenerateChunk(i)
    \/ \E c \in CameraXs : EnsureChunks(c, WINDOW_WIDTH)
    \/ \E x \in SampleXs : SampleHeight(x)

Spec == Init /\ [][Next]_vars

\* ---------------------------------------------------- generators on their own
\* A TerrainManager nothing has been called on.
TerrainIdle ==
    /\ seed = SEED
    /\ allow_negative = TRUE
    /\ chunks = EmptyStore
    /\ op = "init"
    /\ arg = 0
    /\ before = EmptyStore
    /\ generated = <<>>
    /\ result = ReturnedNone
    /\ prior = -1

\* No call made yet on a generator.
NotCalled == [fn |-> "none", x |-> 0, octaves |-> 0, raised |-> FALSE, value |-> 0]

\* Two generators constructed independently, each from a seed of its own.
NoiseInit ==
    /\ TerrainIdle
    /\ NoRidge
    /\ NoGame
    /\ gseed \in [Generators -> NoiseSeeds]
    /\ gen = [g \in Generators |-> Noise1D(gseed[g])]
    /\ ncall = [g \in Generators |-> NotCalled]

\* gen[g].noise(x)
NoiseCall(g, xf) ==
    LET r == noise_call(gen[g], xf)
    IN  /\ gen' = [gen EXCEPT ![g] = r.self]
        /\ ncall' = [ncall EXCEPT ![g] = [fn |-> "noise", x |-> xf, octaves |-> 0,
                                          raised |-> FALSE, value |-> r.value]]
        /\ UNCHANGED <<gseed, terrain_vars, smooth_vars, game_vars>>

\* gen[g].fractal(x, octaves)
FractalCall(g, xf, octaves) ==
    LET r == fractal_call(gen[g], xf, octaves)
    IN  /\ gen' = [gen EXCEPT ![g] = r.self]
        /\ ncall' = [ncall EXCEPT ![g] = [fn |-> "fractal", x |-> xf, octaves |-> octaves,
                                          raised |-> r.raised, value |-> r.value]]
        /\ UNCHANGED <<gseed, terrain_vars, smooth_vars, game_vars>>

NoiseNext ==
    \/ \E g \in Generators : \E xf \in NoiseXs : NoiseCall(g, xf)
    \/ \E g \in Generators : \E xf \in NoiseXs : \E o \in Octaves : FractalCall(g, xf, o)

NoiseSpec == NoiseInit /\ [][NoiseNext]_vars

\* ------------------------------------------------------- drawing the ridge
\* The store the ridge is drawn from: the initial left chunks of
\* Game.__init__, then chunks 0..SmoothHi as the camera reached them.
SmoothStore ==
    generate_up_to(SEED, TRUE, initial_left(SEED, TRUE, EmptyStore, 1), 0, SmoothHi)

SmoothInit ==
    /\ seed = SEED
    /\ allow_negative = TRUE
    /\ chunks = SmoothStore
    /\ op = "init"
    /\ arg = 0
    /\ before = EmptyStore
    /\ generated = <<>>
    /\ result = ReturnedNone
    /\ prior = -1
    /\ NoNoise
    /\ NoGame
    /\ \E c \in SmoothCams : ridge = draw_points(chunks, allow_negative, c, SmoothWidth)
    /\ refined = <<>>
    /\ stage = "gathered"
    /\ passes = SPIKE_FILTER_PASSES
    /\ passes_run = 0
    /\ pass_in = <<>>

\* draw, first half: the frame's draw_points, sorted.
Gather(camera_x) ==
    /\ ridge' = draw_points(chunks, allow_negative, camera_x, SmoothWidth)
    /\ refined' = <<>>
    /\ stage' = "gathered"
    /\ UNCHANGED <<spike_vars, terrain_vars, noise_vars, game_vars>>

\* draw, second half: ridge = self._catmull_rom(ridge, TERRAIN_SMOOTH_SUBDIVS).
Smooth ==
    /\ stage = "gathered"
    /\ ridge # <<>>
    /\ refined' = catmull_rom(ridge, TERRAIN_SMOOTH_SUBDIVS)
    /\ stage' = "smoothed"
    /\ UNCHANGED <<ridge, spike_vars, terrain_vars, noise_vars, game_vars>>

SmoothNext ==
    \/ \E c \in SmoothCams : Gather(c)
    \/ Smooth

SmoothSpec == SmoothInit /\ [][SmoothNext]_vars

\* ------------------------------------------- the spike loop, pass by pass
\* A frame's points gathered, about to be smoothed under passes = 0..MaxPasses.
SpikeInit ==
    /\ seed = SEED
    /\ allow_negative = TRUE
    /\ chunks = SmoothStore
    /\ op = "init"
    /\ arg = 0
    /\ before = EmptyStore
    /\ generated = <<>>
    /\ result = ReturnedNone
    /\ prior = -1
    /\ NoNoise
    /\ NoGame
    /\ \E c \in SmoothCams : ridge = draw_points(chunks, allow_negative, c, SmoothWidth)
    /\ refined = <<>>
    /\ stage = "gathered"
    /\ passes \in 0..MaxPasses
    /\ passes_run = 0
    /\ pass_in = <<>>

\* _catmull_rom(ridge, TERRAIN_SMOOTH_SUBDIVS) from its entry to the spike
\* filter, or to one of its early returns.
Spline ==
    /\ stage = "gathered"
    /\ ridge # <<>>
    /\ \E r \in {spline_and_clamp(ridge, TERRAIN_SMOOTH_SUBDIVS)} :
           /\ refined' = r.pts
           /\ stage' = IF r.returned THEN "smoothed" ELSE "filtering"
    /\ UNCHANGED <<ridge, spike_vars, terrain_vars, noise_vars, game_vars>>

\* One turn of `for _ in range(passes)`: the pass and its `if not changed:
\* break`, or the end of the range.
SpikePass ==
    /\ stage = "filtering"
    /\ IF passes_run >= passes
       THEN /\ stage' = "smoothed"
            /\ UNCHANGED <<refined, passes_run, pass_in>>
       ELSE /\ refined' = spike_pass(refined)
            /\ pass_in' = refined
            /\ passes_run' = passes_run + 1
            /\ stage' = after_pass(spike_changed(refined))
    /\ UNCHANGED <<ridge, passes, terrain_vars, noise_vars, game_vars>>

SpikeNext ==
    \/ Spline
    \/ SpikePass

SpikeSpec == SpikeInit /\ [][SpikeNext]_vars

\* ------------------------------------------------------------ the game loop
\* The terrain's own call record stays as __init__ left it.
NoCallYet ==
    /\ op = "init"
    /\ arg = 0
    /\ before = EmptyStore
    /\ generated = <<>>
    /\ result = ReturnedNone
    /\ prior = -1

\* Game.__init__ with a Player() standing at x = 0 (drop = 0), or the release
\* of test_player_ground_clamp: player.y = sample_height(player.x) - drop,
\* vy = 0.
GameInit ==
    /\ seed = SEED
    /\ allow_negative \in BOOLEAN
    /\ NoCallYet
    /\ NoNoise
    /\ NoRidge
    /\ \E drop \in Drops :
           LET store == GameStartTable[seed][allow_negative]
               r     == sample_height(seed, allow_negative, store, Player.x)
           IN  IF drop = 0
               THEN chunks = store /\ player = Player
               ELSE chunks = r.chunks /\ player = [Player EXCEPT !.y = r.value - drop * FP]
    /\ cam_x = 0
    /\ pc = "update"
    /\ frame_gen = 0
    /\ keys_left = KeyFrames
    /\ keyed = FALSE
    /\ air_steps = 0

\* Game.update: player.update(dt), that is handle_input and physics, then
\* update_camera(dt).  A KeyError out of sample_height ends the game with
\* the player where the integration put him.
Update(move, jump) ==
    /\ pc = "update"
    /\ (move # 0 \/ jump) => keys_left > 0
    /\ \E fallen \in {fall(handle_input(player, move, jump))} :
       \E r \in {sample_height(seed, allow_negative, chunks, fallen.x)} :
       \E landed \in {IF r.raised THEN fallen ELSE land(fallen, r.value)} :
           /\ player' = landed
           /\ chunks' = r.chunks
           /\ frame_gen' = Cardinality(DOMAIN r.chunks \ DOMAIN chunks)
           /\ air_steps' = IF r.raised \/ landed.on_ground THEN air_steps
                            ELSE air_steps + 1
           /\ IF r.raised
              THEN pc' = "crashed" /\ cam_x' = cam_x
              ELSE pc' = "draw" /\ cam_x' = update_camera(cam_x, landed)
    /\ keys_left' = Max(keys_left - 1, 0)
    /\ keyed' = (keyed \/ move # 0 \/ jump)
    /\ UNCHANGED <<seed, allow_negative, op, arg, before, generated, result, prior>>
    /\ UNCHANGED <<noise_vars, smooth_vars>>

\* Game.draw: terrain.draw(screen, camera_x), whose ensure_chunks is the
\* part that touches the store.
Draw ==
    /\ pc = "draw"
    /\ \E r \in {ensure_chunks(seed, allow_negative, chunks, cam_x \div FP, WINDOW_WIDTH)} :
           /\ chunks' = r.chunks
           /\ frame_gen' = frame_gen + Len(r.gen)
    /\ pc' = "update"
    /\ UNCHANGED <<player, cam_x, keys_left, keyed, air_steps>>
    /\ UNCHANGED <<seed, allow_negative, op, arg, before, generated, result, prior>>
    /\ UNCHANGED <<noise_vars, smooth_vars>>

GameNext ==
    \/ \E move \in Moves : \E jump \in BOOLEAN : Update(move, jump)
    \/ Draw

GameSpec == GameInit /\ [][GameNext]_vars

\* The loop of Game.run moving on: from update to draw (or to the crash) and
\* from draw to update.  Every step of GameNext is one, and one is possible
\* exactly when GameNext is.
Turn ==
    /\ pc \in {"update", "draw"}
    /\ pc' \in {"update", "draw", "crashed"}
    /\ pc' # pc

\* Game.run calls update and draw in every turn of its loop.
GameFairSpec == GameInit /\ [][GameNext]_vars /\ WF_pc(Turn)

\* ------------------------------------------- streaming under a held camera
\* The stores a streaming run starts from: the empty one of
\* TerrainManager.__init__, the one Game.__init__ leaves, that one with
\* chunks 0..SmoothHi generated after it, and one holding a lone chunk in
\* the middle of the prefetch window with another far to the left.
StreamStarts(s, allow) ==
    LET started == game_start_store(s, allow)
        lone    == generate_chunk(s, allow, EmptyStore, PREFETCH_CHUNKS_AHEAD \div 2)
    IN  { EmptyStore,
          started,
          generate_up_to(s, allow, started, 0, SmoothHi),
          generate_chunk(s, allow, lone, -INITIAL_LEFT_CHUNKS) }

StreamStartTable == [s \in Seeds |-> [a \in BOOLEAN |-> StreamStarts(s, a)]]

StreamInit ==
    /\ seed \in Seeds
    /\ allow_negative \in BOOLEAN
    /\ chunks \in StreamStartTable[seed][allow_negative]
    /\ NoCallYet
    /\ NoNoise
    /\ NoRidge
    /\ NoGame

\* One frame of Game.run: draw calls ensure_chunks(camera_x, screen_w).  The
\* camera of the first frame is any of StreamCams; every later one lies in
\* the chunk of the one before.
StreamFrame(camera_x) ==
    /\ op = "init" \/ ChunkOf(camera_x) = ChunkOf(arg)
    /\ EnsureChunks(camera_x, WINDOW_WIDTH)

StreamNext == \E c \in StreamCams : StreamFrame(c)

\* A frame drawn with the camera at another place of its chunk than in the
\* frame before.  Every such step of StreamNext is one, and one is possible
\* in every state.
FrameDrawn ==
    /\ op' = "ensure_chunks"
    /\ arg' \in StreamCams
    /\ op = "init" \/ ChunkOf(arg') = ChunkOf(arg)

\* Game.run draws a frame in every turn of its loop, and update_camera moves
\* the camera between frames.
StreamSpec == StreamInit /\ [][StreamNext]_vars /\ WF_<<op, arg>>(FrameDrawn)

\* ------------------------------------------------------------------ claims
\* ALLOW_NEGATIVE_CHUNKS admits index i.
Allowed(i) == allow_negative \/ i >= 0

LeftKeep(camera_x) == ChunkOf(camera_x) - PREFETCH_CHUNKS_BEHIND

RightTarget(camera_x) == ChunkOf(camera_x) + PREFETCH_CHUNKS_AHEAD

\* The indices the last call generated.
GeneratedSet == {generated[k] : k \in 1..Len(generated)}

\* The chunk indices a viewport of WINDOW_WIDTH at camera_x shows.
Visible(camera_x) == ChunkOf(camera_x)..ChunkOf(camera_x + WINDOW_WIDTH)

\* C1: after any ensure_chunks(camera_x, w), budget exhausted or not, no
\* stored chunk index is less than left_keep.
C1_NoChunkBelowLeftKeep ==
    op = "ensure_chunks" => \A ci \in DOMAIN chunks : ci >= LeftKeep(arg)

\* An ensure_chunks call that spent its whole budget and found a chunk
\* below left_keep in the store.
C1_Witness ==
    /\ op = "ensure_chunks"
    /\ Len(generated) = MAX_CHUNKS_PER_FRAME
    /\ \E ci \in DOMAIN before : ci < LeftKeep(arg)

\* C2: one ensure_chunks call adds at most MAX_CHUNKS_PER_FRAME indices that
\* were absent before it, the forward and the backward pass together.
C2_BudgetRespected ==
    op = "ensure_chunks" =>
        /\ Len(generated) <= MAX_CHUNKS_PER_FRAME
        /\ DOMAIN chunks \ DOMAIN before = GeneratedSet
        /\ Cardinality(DOMAIN chunks \ DOMAIN before) <= MAX_CHUNKS_PER_FRAME

\* An ensure_chunks call whose budget went to both passes and ran out.
C2_Witness ==
    /\ op = "ensure_chunks"
    /\ Len(generated) = MAX_CHUNKS_PER_FRAME
    /\ \E i \in GeneratedSet : i >= ChunkOf(arg) - 1
    /\ \E i \in GeneratedSet : i <= ChunkOf(arg) - 2

\* C3: generate_chunk(i) on a stored index changes nothing: not chunk i, not
\* any other chunk, and the blend is not applied again.
C3_GenerateStoredIsNoOp ==
    (op = "generate_chunk" /\ arg \in DOMAIN before) =>
        /\ chunks = before
        /\ generated = <<>>

\* generate_chunk(i) on a stored chunk that holds its unblended samples while
\* its left neighbour is stored: a second generation would have blended it.
C3_Witness ==
    /\ op = "generate_chunk"
    /\ arg \in DOMAIN before
    /\ arg - 1 \in DOMAIN before
    /\ before[arg] = Sampled(seed, arg)
    /\ blend_boundary(before[arg - 1], before[arg]) # before[arg]

\* C4: sample_height(x) never raises, for every x and every configuration.
C4_SampleHeightNeverRaises ==
    op = "sample_height" => ~result.raised

\* C5: the point list stored for chunk i depends only on (seed, i): it is the
\* list a fresh manager of that seed stores for i, and sample_height(x)
\* returns what that fresh manager returns.
C5_TerrainDependsOnlyOnSeed ==
    /\ \A i \in DOMAIN chunks :
           chunks[i] = generate_chunk(seed, allow_negative, EmptyStore, i)[i]
    /\ (op = "sample_height" /\ ~result.raised) =>
           result.value = sample_height(seed, allow_negative, EmptyStore, arg).value

\* C6 as stated: after every ensure_chunks every stored index lies in
\* [current - PREFETCH_CHUNKS_BEHIND, current + PREFETCH_CHUNKS_AHEAD].
C6_StoreWithinWindow ==
    op = "ensure_chunks" =>
        \A ci \in DOMAIN chunks : LeftKeep(arg) <= ci /\ ci <= RightTarget(arg)

\* C6 amended: after every ensure_chunks every stored index is at least
\* left_keep; a chunk right of the window is never evicted, and every chunk
\* stored right of the window was there before the call.
C6_PrunedOnTheLeftOnly ==
    op = "ensure_chunks" =>
        /\ \A ci \in DOMAIN chunks : ci >= LeftKeep(arg)
        /\ \A ci \in DOMAIN before : ci > RightTarget(arg) => ci \in DOMAIN chunks
        /\ \A ci \in DOMAIN chunks : ci > RightTarget(arg) => ci \in DOMAIN before

\* An ensure_chunks call that leaves a chunk right of its window stored.
C6_Witness ==
    /\ op = "ensure_chunks"
    /\ \E ci \in DOMAIN chunks : ci > RightTarget(arg)

\* C7 as stated: when ensure_chunks returns, every allowed visible chunk
\* index is stored, from any prior store.
C7_ForwardVisibility ==
    op = "ensure_chunks" =>
        \A i \in Visible(arg) : Allowed(i) => i \in DOMAIN chunks

\* C7 amended: when ensure_chunks returns having generated fewer than
\* MAX_CHUNKS_PER_FRAME chunks, every allowed visible chunk index is stored.
C7_VisibleUnlessBudgetSpent ==
    (op = "ensure_chunks" /\ Len(generated) < MAX_CHUNKS_PER_FRAME) =>
        \A i \in Visible(arg) : Allowed(i) => i \in DOMAIN chunks

\* An ensure_chunks call that generated a visible chunk and kept budget.
C7_Witness ==
    /\ op = "ensure_chunks"
    /\ Len(generated) < MAX_CHUNKS_PER_FRAME
    /\ GeneratedSet \cap Visible(arg) # {}

\* C8 as stated: a second ensure_chunks with the same arguments leaves the
\* store as the first left it.
C8_EnsureIdempotent ==
    (op = "ensure_chunks" /\ prior >= 0) => chunks = before

\* C8 amended: a second ensure_chunks with the same arguments leaves the
\* store as the first left it when the first generated fewer than
\* MAX_CHUNKS_PER_FRAME chunks; otherwise it only adds chunks, and neither
\* removes nor changes one the first call left.
C8_IdempotentOnceBudgetLeft ==
    (op = "ensure_chunks" /\ prior >= 0) =>
        /\ prior < MAX_CHUNKS_PER_FRAME => (chunks = before /\ generated = <<>>)
        /\ \A i \in DOMAIN before : i \in DOMAIN chunks /\ chunks[i] = before[i]

\* A second ensure_chunks with the same arguments after a first that
\* generated chunks without spending its budget.
C8_Witness ==
    /\ op = "ensure_chunks"
    /\ prior >= 1
    /\ prior < MAX_CHUNKS_PER_FRAME

\* C9: with ALLOW_NEGATIVE_CHUNKS false, generate_chunk(i) for i < 0 stores
\* nothing and raises nothing, ensure_chunks generates no negative index,
\* and no negative index is ever stored.
C9_NoNegativeChunkWhenDisallowed ==
    (~allow_negative) =>
        /\ \A ci \in DOMAIN chunks : ci >= 0
        /\ (op = "generate_chunk" /\ arg < 0) => (chunks = before /\ ~result.raised)
        /\ op = "ensure_chunks" => \A i \in GeneratedSet : i >= 0

\* generate_chunk on a negative index, negative chunks disallowed, with
\* chunks in the store.
C9_Witness ==
    /\ ~allow_negative
    /\ op = "generate_chunk"
    /\ arg < 0
    /\ chunks # EmptyStore

\* C10: after generate_chunk(i) then generate_chunk(i + 1), the x of chunk
\* i's last sample occurs in chunk i + 1's list, and the y stored there
\* differs from chunk i's last y by less than NOISE_AMPLITUDE * 0.25.
C10_BoundaryContinuity ==
    (op = "generate_chunk" /\ arg \in DOMAIN chunks /\ arg - 1 \in DOMAIN chunks) =>
        LET left  == chunks[arg - 1]
            right == chunks[arg]
            last  == left[Len(left)]
            match == {k \in 1..Len(right) : right[k][1] = last[1]}
        IN  /\ match # {}
            /\ \A k \in match :
                   Abs(last[2] - right[k][2]) < (NOISE_AMPLITUDE * FP) \div 4

\* generate_chunk(i + 1) generating the chunk right of a stored chunk i.
C10_Witness ==
    /\ op = "generate_chunk"
    /\ generated = <<arg>>
    /\ arg - 1 \in DOMAIN before

\* The number of points of a chunk: one per POINT_SPACING, both ends included.
PointsPerChunk == CHUNK_WIDTH \div POINT_SPACING + 1

\* C11: in every reachable state every stored chunk i has PointsPerChunk
\* points whose x start at i * CHUNK_WIDTH, step by exactly POINT_SPACING and
\* end at (i + 1) * CHUNK_WIDTH; blending never changes an x or the number of
\* points.
C11_ChunkGrid ==
    \A i \in DOMAIN chunks :
        LET pts == chunks[i]
        IN  /\ Len(pts) = PointsPerChunk
            /\ Len(pts) = Len(Sampled(seed, i))
            /\ pts[1][1] = i * CHUNK_WIDTH
            /\ pts[Len(pts)][1] = (i + 1) * CHUNK_WIDTH
            /\ \A k \in 1..(Len(pts) - 1) : pts[k + 1][1] = pts[k][1] + POINT_SPACING
            /\ \A k \in 1..Len(pts) : pts[k][1] = Sampled(seed, i)[k][1]

\* A stored chunk whose heights blending has changed.
C11_Witness ==
    \E i \in DOMAIN chunks :
        \E k \in 1..Len(chunks[i]) : chunks[i][k][2] # Sampled(seed, i)[k][2]

\* The chunk left of the k-th generated one was stored when that one was
\* generated.
LeftStoredWhenGenerated(k) ==
    \/ generated[k] - 1 \in DOMAIN before
    \/ \E m \in 1..(k - 1) : generated[m] = generated[k] - 1

\* C12: a call leaves every chunk it found in the store, and kept, exactly
\* as it was; of a chunk i it generates only the y of the points with
\* x <= (left chunk's last x) + 2 * POINT_SPACING can differ from the samples,
\* and with no left chunk stored nothing differs.
C12_BlendTouchesRightZoneOnly ==
    /\ \A j \in DOMAIN before \cap DOMAIN chunks : chunks[j] = before[j]
    /\ \A g \in 1..Len(generated) :
           LET i == generated[g]
           IN  i \in DOMAIN chunks =>
                   /\ Len(chunks[i]) = Len(Sampled(seed, i))
                   /\ \A k \in 1..Len(chunks[i]) :
                          /\ chunks[i][k][1] = Sampled(seed, i)[k][1]
                          /\ chunks[i][k][1] > i * CHUNK_WIDTH + 2 * POINT_SPACING
                                 => chunks[i][k] = Sampled(seed, i)[k]
                          /\ ~LeftStoredWhenGenerated(g)
                                 => chunks[i][k] = Sampled(seed, i)[k]

\* generate_chunk(i) next to a stored chunk i - 1, the blend changing a
\* height of chunk i.
C12_Witness ==
    /\ op = "generate_chunk"
    /\ generated = <<arg>>
    /\ arg - 1 \in DOMAIN before
    /\ chunks[arg] # Sampled(seed, arg)

\* The segments k of points with points[k].x <= x <= points[k + 1].x.
Bracketing(points, x) ==
    {k \in 1..(Len(points) - 1) : points[k][1] <= x /\ x <= points[k + 1][1]}

\* C13: sample_height(x) is y0 + (y1 - y0) * (x - x0) / (x1 - x0) for the
\* adjacent stored points of chunk floor(x / CHUNK_WIDTH) that bracket x: at
\* a stored x the stored y, at the midpoint the mean of y0 and y1 (rounded
\* down to the fixed-point unit).
C13_LinearInterpolation ==
    (op = "sample_height" /\ ~result.raised) =>
        LET points == chunks[ChunkOf(arg)]
        IN  /\ Bracketing(points, arg) # {}
            /\ \A k \in Bracketing(points, arg) :
                   LET x0 == points[k][1]
                       y0 == points[k][2]
                       x1 == points[k + 1][1]
                       y1 == points[k + 1][2]
                   IN  /\ result.value = y0 + ((y1 - y0) * (((arg - x0) * FP) \div (x1 - x0))) \div FP
                       /\ arg = x0 => result.value = y0
                       /\ arg = x1 => result.value = y1
                       /\ 2 * arg = x0 + x1 => result.value = (y0 + y1) \div 2

\* sample_height at the midpoint of two stored points of different height.
C13_Witness ==
    /\ op = "sample_height"
    /\ ~result.raised
    /\ \E k \in Bracketing(chunks[ChunkOf(arg)], arg) :
           LET points == chunks[ChunkOf(arg)]
           IN  /\ 2 * arg = points[k][1] + points[k + 1][1]
               /\ points[k][2] # points[k + 1][2]

\* C14: two generators constructed from the same seed hold identical perm
\* tables and return identical values for the same call, whatever calls
\* each has served before; noise and fractal leave the table as __init__
\* built it.
C14_SameSeedSameNoise ==
    /\ \A g \in DOMAIN gen : gen[g] = Noise1D(gseed[g])
    /\ \A g, h \in DOMAIN gen :
           gseed[g] = gseed[h] =>
               /\ gen[g].perm = gen[h].perm
               /\ (/\ ncall[g].fn = ncall[h].fn
                   /\ ncall[g].x = ncall[h].x
                   /\ ncall[g].octaves = ncall[h].octaves)
                      => (ncall[g].value = ncall[h].value /\ ncall[g].raised = ncall[h].raised)

\* Two generators of one seed answered the same noise call with a value
\* other than 0.
C14_Witness ==
    /\ DOMAIN gen = Generators
    /\ gseed[1] = gseed[2]
    /\ ncall[1].fn = "noise"
    /\ ncall[2] = ncall[1]
    /\ ncall[1].value # 0

\* C15: for every input x, negative ones included, noise(x) lies in [-1, 1].
C15_NoiseInRange ==
    \A g \in DOMAIN gen :
        ncall[g].fn = "noise" => (-FP <= ncall[g].value /\ ncall[g].value <= FP)

\* C16: fractal(x, octaves) with octaves <= 0 returns 0 for every x and does
\* not raise.
C16_FractalNoOctaves ==
    \A g \in DOMAIN gen :
        (ncall[g].fn = "fractal" /\ ncall[g].octaves <= 0)
            => (~ncall[g].raised /\ ncall[g].value = 0)

\* fractal called with a negative number of octaves at an x where noise is
\* not 0.
C16_Witness ==
    \E g \in DOMAIN gen :
        /\ ncall[g].fn = "fractal"
        /\ ncall[g].octaves < 0
        /\ noise(gen[g].perm, ncall[g].x) # 0

\* The maximal runs <<a, b>> of pts[a..b] between two boundaries of the
\* segmentation, runs of a single point included.
Runs(pts) ==
    {ab \in (1..Len(pts)) \X (1..Len(pts)) :
        /\ ab[1] <= ab[2]
        /\ ab[1] = 1 \/ Cliff(pts[ab[1] - 1], pts[ab[1]])
        /\ ab[2] = Len(pts) \/ Cliff(pts[ab[2]], pts[ab[2] + 1])
        /\ \A k \in ab[1]..(ab[2] - 1) : ~Cliff(pts[k], pts[k + 1])}

\* pts[a..b] stands in out as it is, point after point.
PassedThrough(pts, a, b, out) ==
    \E off \in 0..(Len(out) - (b - a + 1)) :
        \A k \in a..b : out[off + k - a + 1] = pts[k]

\* C17: every run of the segmentation with fewer than
\* TERRAIN_SMOOTH_MIN_POINTS points, a single point between two cliffs
\* included, stands in the output of _catmull_rom unchanged, in order and
\* with no point added inside.
C17_ShortSegmentsPassThrough ==
    stage = "smoothed" =>
        \A ab \in Runs(ridge) :
            ab[2] - ab[1] + 1 < TERRAIN_SMOOTH_MIN_POINTS
                => PassedThrough(ridge, ab[1], ab[2], refined)

\* C18: every point _catmull_rom returns has its y within
\* [min_y - TERRAIN_SMOOTH_VERTICAL_CLAMP, max_y + TERRAIN_SMOOTH_VERTICAL_CLAMP],
\* min_y and max_y taken over the input points.
C18_WithinClampBand ==
    stage = "smoothed" =>
        \A k \in 1..Len(refined) :
            /\ \E j \in 1..Len(ridge) :
                   ridge[j][2] - TERRAIN_SMOOTH_VERTICAL_CLAMP * FP <= refined[k][2]
            /\ \E j \in 1..Len(ridge) :
                   refined[k][2] <= ridge[j][2] + TERRAIN_SMOOTH_VERTICAL_CLAMP * FP

\* A ridge with a segment the spline subdivided and a spike the filter
\* relaxed.
C18_Witness ==
    /\ stage = "smoothed"
    /\ Len(refined) > Len(ridge)
    /\ \E seg \in {segmentation(ridge)[k] : k \in 1..Len(segmentation(ridge))} :
           Len(seg) >= TERRAIN_SMOOTH_MIN_POINTS
    /\ spike_changed(vertical_clamp(ridge, smooth_all(segmentation(ridge), 1, TERRAIN_SMOOTH_SUBDIVS)))

\* C19: within one frame, one Player.update followed by one draw, at most
\* MAX_CHUNKS_PER_FRAME chunks are generated in total, sample_height's
\* included.
C19_FrameBudget == frame_gen <= MAX_CHUNKS_PER_FRAME

\* The terrain height under the player, as the store holds it.
GroundUnderPlayer == sample_height(seed, allow_negative, chunks, player.x).value

\* C20: with no key pressed, a player released above the terrain is on the
\* ground after finitely many updates; in the step in which he lands his y is
\* sample_height(x) and his vy is 0; and after every physics step his y is
\* not greater than the terrain height at his x.
C20_PlayerLands ==
    /\ <>(keyed \/ player.on_ground)
    /\ [](pc = "draw" =>
             /\ player.y <= GroundUnderPlayer
             /\ player.on_ground => (player.y = GroundUnderPlayer /\ player.vy = 0))

\* A player who was in the air for some updates has landed with no key
\* pressed.
C20_Witness ==
    /\ pc = "draw"
    /\ ~keyed
    /\ air_steps > 0
    /\ player.on_ground
    /\ player.vy = 0
    /\ player.y = GroundUnderPlayer

\* Every allowed index of the prefetch window of the last ensure_chunks call
\* is stored.
WindowFilled ==
    /\ op = "ensure_chunks"
    /\ \A i \in LeftKeep(arg)..RightTarget(arg) : Allowed(i) => i \in DOMAIN chunks

\* The allowed indices of the prefetch window of camera_x that store lacks.
Missing(store, camera_x) ==
    {i \in LeftKeep(camera_x)..RightTarget(camera_x) : Allowed(i) /\ i \notin DOMAIN store}

StoredAtStep(i, k) ==
    \/ i \in DOMAIN before
    \/ \E m \in 1..(k - 1) : generated[m] = i

\* Index i lies in the range of the forward loop of the last ensure_chunks.
InForwardRange(i) == ChunkOf(arg) - 1 <= i /\ i <= RightTarget(arg)

\* C22: within one ensure_chunks call the chunks of
\* [current - 1, current + PREFETCH_CHUNKS_AHEAD] are generated first, in
\* ascending order and skipping no missing allowed index; a chunk with index
\* <= current - 2 is generated only when every allowed index of that range
\* is stored by then and fewer than MAX_CHUNKS_PER_FRAME chunks have been
\* generated.
C22_ForwardPriority ==
    op = "ensure_chunks" =>
        \A k \in 1..Len(generated) :
            /\ generated[k] \notin DOMAIN before
            /\ InForwardRange(generated[k]) =>
                   /\ \A m \in 1..(k - 1) :
                          InForwardRange(generated[m]) /\ generated[m] < generated[k]
                   /\ \A i \in (ChunkOf(arg) - 1)..(generated[k] - 1) :
                          Allowed(i) => StoredAtStep(i, k)
            /\ ~InForwardRange(generated[k]) =>
                   /\ generated[k] <= ChunkOf(arg) - 2
                   /\ generated[k] >= LeftKeep(arg)
                   /\ k - 1 < MAX_CHUNKS_PER_FRAME
                   /\ \A i \in (ChunkOf(arg) - 1)..RightTarget(arg) :
                          Allowed(i) => StoredAtStep(i, k)

\* An ensure_chunks call that generated forward chunks and then, with budget
\* left, a chunk behind.
C22_Witness ==
    /\ op = "ensure_chunks"
    /\ \E k \in 2..Len(generated) :
           /\ generated[k] <= ChunkOf(arg) - 2
           /\ InForwardRange(generated[1])

\* C23: for every pair of adjacent stored chunks i and i + 1, chunk i + 1
\* holds its samples blended against chunk i, whatever the order in which
\* the two were generated.
C23_AdjacentChunksBlended ==
    \A i \in DOMAIN chunks :
        i + 1 \in DOMAIN chunks =>
            chunks[i + 1] = blend_boundary(chunks[i], Sampled(seed, i + 1))

\* C24: for every pair of adjacent stored chunks i and i + 1, the last point
\* of chunk i and the first point of chunk i + 1 are the same point, at
\* x = (i + 1) * CHUNK_WIDTH with the sampled height of that x; a chunk's
\* last point is the one it was sampled with.
C24_SeamContinuity ==
    \A i \in DOMAIN chunks :
        /\ chunks[i][Len(chunks[i])] = Sampled(seed, i)[Len(Sampled(seed, i))]
        /\ i + 1 \in DOMAIN chunks =>
               LET last  == chunks[i][Len(chunks[i])]
                   first == chunks[i + 1][1]
               IN  /\ last[1] = (i + 1) * CHUNK_WIDTH
                   /\ first[1] = last[1]
                   /\ first[2] = last[2]
                   /\ first[2] = Sampled(seed, i + 1)[1][2]

\* Adjacent stored chunks, the right one changed by the blend against the
\* left one.
C24_Witness ==
    \E i \in DOMAIN chunks :
        /\ i + 1 \in DOMAIN chunks
        /\ chunks[i + 1] # Sampled(seed, i + 1)
        /\ chunks[i + 1] = blend_boundary(chunks[i], Sampled(seed, i + 1))

\* C25: ensure_chunks only adds chunks that were absent and deletes chunks
\* with index < left_keep: every chunk stored before the call with index
\* >= left_keep is stored after it, and every chunk stored before and after
\* holds the point list it held before.
C25_EnsureAddsAndPrunesOnly ==
    op = "ensure_chunks" =>
        /\ \A ci \in DOMAIN before : ci >= LeftKeep(arg) => ci \in DOMAIN chunks
        /\ \A ci \in DOMAIN before \ DOMAIN chunks : ci < LeftKeep(arg)
        /\ \A ci \in DOMAIN chunks \ DOMAIN before : ci \in GeneratedSet
        /\ \A ci \in DOMAIN before \cap DOMAIN chunks : chunks[ci] = before[ci]

\* An ensure_chunks call that evicted a chunk and generated the left
\* neighbour of a chunk it found stored.
C25_Witness ==
    /\ op = "ensure_chunks"
    /\ DOMAIN before \ DOMAIN chunks # {}
    /\ \E ci \in DOMAIN before \cap DOMAIN chunks : ci - 1 \in GeneratedSet

\* Gradient noise over the cell floor(x): x0 = floor(x) mod 256,
\* frac = x - floor(x) in [0, 1), x1 = (x0 + 1) mod 256, gradients by the
\* parity of perm[x0] and perm[x1], lerp(g0 * frac, g1 * (frac - 1), fade(frac)).
floor_noise(perm, xf) ==
    LET fl   == xf \div FP
        x0   == fl % 256
        frac == xf - fl * FP
        x1   == (x0 + 1) % 256
        g0   == IF perm[x0 + 1] % 2 = 0 THEN 1 ELSE -1
        g1   == IF perm[x1 + 1] % 2 = 0 THEN 1 ELSE -1
    IN  LERP(g0 * frac, g1 * (frac - FP), FADE(frac))

\* C26: for every x, negative non-integer x included, noise(x) is the value
\* of gradient noise over the cell floor(x).
C26_NoiseOverFloorCell ==
    \A g \in DOMAIN gen :
        ncall[g].fn = "noise" => ncall[g].value = floor_noise(gen[g].perm, ncall[g].x)

\* The points of pts are in non-decreasing order of x.
SortedByX(pts) == \A k \in 1..(Len(pts) - 1) : pts[k][1] <= pts[k + 1][1]

\* C27: given the points of draw, sorted by non-decreasing x with the two
\* points of a chunk seam sharing their x, the output of _catmull_rom is
\* sorted by non-decreasing x.
C27_OutputSortedByX ==
    (stage = "smoothed" /\ SortedByX(ridge)) => SortedByX(refined)

\* The average of the two-neighbour averages around pts[i].
NeighbourAvg(pts, i) ==
    ((pts[i - 1][2] + pts[i - 2][2]) \div 2 + (pts[i + 1][2] + pts[i + 2][2]) \div 2) \div 2

\* pts[i] is an interior point standing more than the threshold above its
\* neighbourhood: its y is that much less than the average.
UpwardSpike(pts, i) ==
    /\ 3 <= i
    /\ i <= Len(pts) - 2
    /\ pts[i][2] < NeighbourAvg(pts, i) - SPIKE_FILTER_THRESHOLD * FP

\* C28: a spike pass keeps the number of points and every x; it changes
\* exactly the interior points (third to third from last) whose y is more
\* than the threshold less than the average of their two-neighbour averages,
\* each to y - (y - avg) * SPIKE_RELAX_FACTOR taken over the points the pass
\* started from, a strictly larger y; a point below its neighbourhood is
\* never changed.
C28_SpikePassOneSided ==
    passes_run > 0 =>
        /\ Len(refined) = Len(pass_in)
        /\ \A i \in 1..Len(pass_in) :
               /\ refined[i][1] = pass_in[i][1]
               /\ UpwardSpike(pass_in, i) =>
                      /\ refined[i][2] > pass_in[i][2]
                      /\ refined[i][2] = pass_in[i][2]
                             - ((pass_in[i][2] - NeighbourAvg(pass_in, i)) * SPIKE_RELAX_PCT) \div 100
               /\ ~UpwardSpike(pass_in, i) => refined[i] = pass_in[i]
               /\ (3 <= i /\ i <= Len(pass_in) - 2 /\ pass_in[i][2] > NeighbourAvg(pass_in, i))
                      => refined[i] = pass_in[i]

\* A second pass that relaxed a spike and left alone a dip deeper than the
\* threshold.
C28_Witness ==
    /\ passes_run >= 2
    /\ \E i \in 1..Len(pass_in) : UpwardSpike(pass_in, i) /\ refined[i] # pass_in[i]
    /\ \E i \in 3..(Len(pass_in) - 2) :
           /\ pass_in[i][2] > NeighbourAvg(pass_in, i) + SPIKE_FILTER_THRESHOLD * FP
           /\ refined[i] = pass_in[i]

\* C29: the spike loop runs at most `passes` passes, each turn of it either
\* uses up one of them or returns; it goes on only after a pass that changed
\* a point, and when it stops before the passes are used up the last pass
\* changed nothing: the points returned are those that pass started from.
C29_SpikeLoopTerminates ==
    /\ [](/\ passes_run <= passes
          /\ (stage = "filtering" /\ passes_run > 0) => refined # pass_in
          /\ (stage = "smoothed" /\ passes_run > 0 /\ passes_run < passes)
                 => refined = pass_in)
    /\ [][stage = "filtering" =>
              \/ stage' = "smoothed" /\ passes_run' = passes_run
              \/ passes_run' = passes_run + 1]_vars

\* The loop stopped with passes to spare, after passes that changed points
\* and one that did not.
C29_Witness ==
    /\ stage = "smoothed"
    /\ passes_run >= 2
    /\ passes_run < passes
    /\ refined = pass_in

\* C30: with PREFETCH_CHUNKS_BEHIND = 2 >= 1, no chunk generated during an
\* ensure_chunks call is evicted by the prune step of that call: every
\* generated index is at least left_keep and is stored when the call returns.
C30_GeneratedChunksKept ==
    op = "ensure_chunks" =>
        \A k \in 1..Len(generated) :
            /\ generated[k] >= LeftKeep(arg)
            /\ generated[k] \in DOMAIN chunks

\* An ensure_chunks call that generated the chunk at left_keep and evicted a
\* chunk left of it.
C30_Witness ==
    /\ op = "ensure_chunks"
    /\ PREFETCH_CHUNKS_BEHIND >= 1
    /\ LeftKeep(arg) \in GeneratedSet
    /\ DOMAIN before \ DOMAIN chunks # {}

====
